---- MODULE Spec2Model ----
(***************************************************************************)
(* Model of temci/build/assembly.py: the line classifier, the section and  *)
(* assembly-file model, the randomization processor and the                *)
(* assemble-verify-retry driver process_assembler.                         *)
(*                                                                         *)
(* Line contents are real strings; the classifier is computed on their     *)
(* characters the way the Python code computes it (strip, whitespace       *)
(* collapsing, prefix tests, regular-expression matches).                  *)
(***************************************************************************)
EXTENDS Integers, Sequences, FiniteSets, TLC

(***************************************************************************)
(* Bounds of the model.                                                    *)
(***************************************************************************)
MaxLines == 4        \* longest line sequence handed to AssemblyFile(...)
MaxSections == 4     \* randomize_file_structure is called on at most this many sections
MaxHeap == 1         \* the non-zero "heap" padding bound that is tried
MaxStack == 1        \* the non-zero "stack" padding bound that is tried
MaxSectionLines == 4 \* the most lines of a section a transform is called on
MaxFunctionLines == 5 \* the most lines of a function section that is padded
MaxScanLines == 4    \* the most lines of a section whose scans are followed

(***************************************************************************)
(* Python string primitives.                                               *)
(***************************************************************************)
Char(s, i) == SubSeq(s, i, i)

IsSpace(c) == c \in {" ", "\t", "\n"}

Min(S) == CHOOSE x \in S : \A y \in S : x <= y
Max(S) == CHOOSE x \in S : \A y \in S : x >= y

NonSpace(s) == {i \in 1..Len(s) : ~IsSpace(Char(s, i))}

\* str.strip()
Strip(s) == IF NonSpace(s) = {} THEN "" ELSE SubSeq(s, Min(NonSpace(s)), Max(NonSpace(s)))

\* str.rstrip()
RStrip(s) == IF NonSpace(s) = {} THEN "" ELSE SubSeq(s, 1, Max(NonSpace(s)))

\* str.lstrip()
LStrip(s) == IF NonSpace(s) = {} THEN "" ELSE SubSeq(s, Min(NonSpace(s)), Len(s))

\* re.sub(r"\s+", " ", s)
RECURSIVE Collapse(_)
Collapse(s) ==
    IF s = "" THEN ""
    ELSE IF IsSpace(Char(s, 1)) THEN " " \o Collapse(LStrip(s))
    ELSE Char(s, 1) \o Collapse(SubSeq(s, 2, Len(s)))

\* str.startswith(p)
StrStartsWith(s, p) == Len(p) <= Len(s) /\ SubSeq(s, 1, Len(p)) = p

\* c in s, for a one-character c
Contains(s, c) == \E i \in 1..Len(s) : Char(s, i) = c

\* s.split(sep)[0], for a one-character sep
SplitFirst(s, sep) ==
    LET hits == {i \in 1..Len(s) : Char(s, i) = sep}
    IN  IF hits = {} THEN s ELSE SubSeq(s, 1, Min(hits) - 1)

\* re.split(r"\s+", s, maxsplit=1) of a stripped, non-empty s
SplitWS1(s) ==
    LET hits == {i \in 1..Len(s) : IsSpace(Char(s, i))}
    IN  IF hits = {} THEN <<s>>
        ELSE <<SubSeq(s, 1, Min(hits) - 1), LStrip(SubSeq(s, Min(hits), Len(s)))>>

\* re.split(r"\s+", s)[0]
SplitWSFirst(s) ==
    LET hits == {i \in 1..Len(s) : IsSpace(Char(s, i))}
    IN  IF hits = {} THEN s ELSE SubSeq(s, 1, Min(hits) - 1)

\* re.compile("#[-\ ]* Begin ").match(s)
libfirm_begin_pattern(s) ==
    /\ StrStartsWith(s, "#")
    /\ \E k \in 1..Len(s) :
          /\ \A m \in 2..k : Char(s, m) \in {"-", " "}
          /\ StrStartsWith(SubSeq(s, k + 1, Len(s)), " Begin ")

(***************************************************************************)
(* class Line                                                              *)
(***************************************************************************)
Line(content, number) == [content |-> content, number |-> number]

startswith(line, other_str) == StrStartsWith(Collapse(Strip(line.content)), other_str)

is_label(line) ==
    /\ Contains(line.content, ":")
    /\ Contains(SplitFirst(Strip(line.content), " "), ":")

get_label(line) == SplitFirst(line.content, ":")

is_function_label(line) == is_label(line) /\ ~StrStartsWith(get_label(line), ".")

is_statement(line) ==
    /\ ~is_label(line)
    /\ ~startswith(line, "/")
    /\ Strip(line.content) # ""

SegmentNames == {"bss", "data", "rodata", "text"}

is_segment_statement(line) ==
    /\ is_statement(line)
    /\ \E x \in SegmentNames :
          \/ startswith(line, "." \o x)
          \/ startswith(line, ".section ." \o x)

split_section_before(line) ==
    IF ~is_statement(line) THEN FALSE
    ELSE \/ Len(Strip(line.content)) = 0
         \/ is_segment_statement(line)
         \/ line.number = 1

\* class StatementLine: the mnemonic and the operand text
statement(line) == SplitWS1(Strip(line.content))[1]
rest(line) ==
    LET arr == SplitWS1(Strip(line.content))
    IN  IF Len(arr) = 2 THEN arr[2] ELSE ""

(***************************************************************************)
(* class Section / FunctionSection.  A section object is a record of its   *)
(* class and its lines; the objects of an AssemblyFile live in the         *)
(* sequence objs and AssemblyFile.sections is a list of references         *)
(* (indices into objs), so that one object occurring twice in the list is  *)
(* distinguishable from two equal objects.                                 *)
(***************************************************************************)
Section(lines) == [cls |-> "Section", lines |-> lines]

FunctionSection(lines) == [cls |-> "FunctionSection", lines |-> lines]

from_lines(lines) ==
    IF \E k \in 1..Len(lines) :
          is_function_label(lines[k]) \/ libfirm_begin_pattern(lines[k].content)
    THEN FunctionSection(lines)
    ELSE Section(lines)

(***************************************************************************)
(* class AssemblyFile                                                      *)
(***************************************************************************)
is_libfirm(lines) == \E k \in 1..Len(lines) : libfirm_begin_pattern(lines[k].content)

is_gcc(lines) == \E k \in 1..Len(lines) : startswith(lines[k], ".cfi")

\* the two dialects' boundary tests of _init_sections
libfirm_boundary(line) == Strip(line.content) = ""

gcc_boundary(line) == Strip(line.content) = ".text" \/ is_segment_statement(line)

\* partition with the boundary line left out of the section it opens
RECURSIVE partition_drops_boundary(_, _, _, _, _)
partition_drops_boundary(lines, k, cur, acc, libfirm) ==
    IF k > Len(lines) THEN Append(acc, Section(cur))
    ELSE IF (IF libfirm THEN libfirm_boundary(lines[k]) ELSE gcc_boundary(lines[k]))
         THEN partition_drops_boundary(lines, k + 1, <<>>, Append(acc, from_lines(cur)), libfirm)
         ELSE partition_drops_boundary(lines, k + 1, Append(cur, lines[k]), acc, libfirm)

\* the loop shared by both branches: cur is the section being filled, acc
\* the sections appended so far
RECURSIVE partition(_, _, _, _, _)
partition(lines, k, cur, acc, libfirm) ==
    IF k > Len(lines) THEN Append(acc, Section(cur))
    ELSE IF (IF libfirm THEN libfirm_boundary(lines[k]) ELSE gcc_boundary(lines[k]))
         THEN partition(lines, k + 1, <<lines[k]>>, Append(acc, from_lines(cur)), libfirm)
         ELSE partition(lines, k + 1, Append(cur, lines[k]), acc, libfirm)

\* the else branch of _init_sections raises ValueError("Unknown assembler")
unknown_assembler(lines) == ~is_libfirm(lines) /\ ~is_gcc(lines)

\* the section objects _init_sections builds, in order
_init_sections(lines) ==
    IF is_libfirm(lines) THEN partition(lines, 1, <<>>, <<>>, TRUE)
    ELSE partition(lines, 1, <<>>, <<>>, FALSE)

\* the Line objects add_lines appends for the strings strs
new_lines(strs, start_num) == [k \in 1..Len(strs) |-> Line(strs[k], (k - 1) + start_num)]

\* sections[is_gcc:]
drop_first(secs, gcc) == IF gcc THEN SubSeq(secs, 2, Len(secs)) ELSE secs

\* the loop of the small_changes branch; coins[p] is the p-th value drawn
\* from random.randrange(0, 2), i the 0-based loop index
RECURSIVE small_changes_loop(_, _, _)
small_changes_loop(_sections, i, coins) ==
    IF ~(i < Len(_sections) - 1) THEN _sections
    ELSE IF coins[(i \div 2) + 1] = 0
         THEN LET tmp == _sections[i + 1]
                  s1 == [_sections EXCEPT ![i + 1] = _sections[i + 1]]
                  s2 == [s1 EXCEPT ![i + 2] = tmp]
              IN  small_changes_loop(s2, i + 2, coins)
         ELSE small_changes_loop(_sections, i + 2, coins)

\* every outcome random.shuffle can leave in the list
shuffle(list) ==
    IF Len(list) = 0 THEN {list}
    ELSE {[k \in 1..Len(list) |-> list[p[k]]] : p \in Permutations(1..Len(list))}

\* randomize_file_structure without the pinned first and last section
randomize_file_structure_unpinned(secs, lines, small_changes) ==
    IF Len(secs) = 0 THEN {secs}
    ELSE IF small_changes
         THEN {small_changes_loop(secs, 0, coins) :
                  coins \in [1..(Len(secs) \div 2) -> {0, 1}]}
         ELSE shuffle(secs)

\* every value self.sections can have after randomize_file_structure
randomize_file_structure(secs, lines, small_changes) ==
    IF Len(secs) = 0 THEN {secs}
    ELSE LET _sections == drop_first(secs, is_gcc(lines))
             pre == secs[1]
             post == secs[Len(secs)]
             outcomes ==
                 IF small_changes
                 THEN {small_changes_loop(_sections, 0, coins) :
                          coins \in [1..(Len(_sections) \div 2) -> {0, 1}]}
                 ELSE shuffle(_sections)
         IN  {<<pre>> \o o \o <<post>> : o \in outcomes}

\* list.insert(i, x) with a 0-based i <= len(list)
insert(list, i, x) == SubSeq(list, 1, i) \o <<x>> \o SubSeq(list, i + 1, Len(list))

\* sep.join(strs)
RECURSIVE join(_, _)
join(sep, strs) ==
    IF Len(strs) = 0 THEN ""
    ELSE IF Len(strs) = 1 THEN strs[1]
    ELSE strs[1] \o sep \o join(sep, Tail(strs))

\* [line.rstrip() for line in f.readlines()] of a file holding text
RECURSIVE readlines_rstrip(_)
readlines_rstrip(text) ==
    LET hits == {i \in 1..Len(text) : Char(text, i) = "\n"}
    IN  IF text = "" THEN <<>>
        ELSE IF hits = {} THEN <<RStrip(text)>>
        ELSE <<RStrip(SubSeq(text, 1, Min(hits)))>>
                \o readlines_rstrip(SubSeq(text, Min(hits) + 1, Len(text)))

(***************************************************************************)
(* Section.randomize_segment.  Every operator that draws random numbers    *)
(* yields the set of all values the call can leave behind.                 *)
(***************************************************************************)
\* the first index >= i (0-based) of a line that starts the segment, or
\* len(lines)
segment_start(lines, i, segment_name) ==
    LET hits == {k \in i..(Len(lines) - 1) :
                    \/ startswith(lines[k + 1], "." \o segment_name)
                    \/ startswith(lines[k + 1], ".section " \o segment_name)}
    IN  IF hits = {} THEN Len(lines) ELSE Min(hits)

\* the value of j after "while j < len(self.lines) and not
\* self.lines[i].split_section_before(): j += 1", started at j = i + 1
segment_end(lines, i) ==
    IF split_section_before(lines[i + 1]) THEN i + 1 ELSE Len(lines)

\* the label induced subsections of parts_to_shuffle
RECURSIVE subsections(_, _)
subsections(parts, acc) ==
    IF Len(parts) = 0 THEN acc
    ELSE LET line == Head(parts)
             cur == acc[Len(acc)]
         IN  IF is_label(line) /\ Len(cur) > 0
             THEN subsections(Tail(parts), Append(acc, <<line>>))
             ELSE subsections(Tail(parts), [acc EXCEPT ![Len(acc)] = Append(cur, line)])

RECURSIVE concat(_)
concat(lists) == IF Len(lists) = 0 THEN <<>> ELSE Head(lists) \o concat(Tail(lists))

\* randomize_segment writing the shuffled part back over one line more
RECURSIVE randomize_segment_overwriting(_, _, _)
randomize_segment_overwriting(lines, i0, segment_name) ==
    IF ~(i0 < Len(lines)) THEN {lines}
    ELSE LET i == segment_start(lines, i0, segment_name)
         IN  IF i = Len(lines) THEN {lines}
             ELSE LET j == segment_end(lines, i)
                  IN  IF j = Len(lines) THEN {lines}
                      ELSE UNION {
                             randomize_segment_overwriting(
                                 SubSeq(lines, 1, i + 1) \o concat(shuffled) \o SubSeq(lines, j + 2, Len(lines)),
                                 j, segment_name) :
                             shuffled \in shuffle(subsections(SubSeq(lines, i + 2, j), <<<<>>>>)) }

RECURSIVE randomize_segment(_, _, _)
randomize_segment(lines, i0, segment_name) ==
    IF ~(i0 < Len(lines)) THEN {lines}
    ELSE LET i == segment_start(lines, i0, segment_name)
         IN  IF i = Len(lines) THEN {lines}
             ELSE LET j == segment_end(lines, i)
                  IN  IF j = Len(lines) THEN {lines}
                      ELSE UNION {
                             randomize_segment(
                                 SubSeq(lines, 1, i + 1) \o concat(shuffled) \o SubSeq(lines, j + 1, Len(lines)),
                                 j, segment_name) :
                             shuffled \in shuffle(subsections(SubSeq(lines, i + 2, j), <<<<>>>>)) }

(***************************************************************************)
(* Section.randomize_malloc_calls                                          *)
(***************************************************************************)
\* the names with realloc supported as well
randomized_method_names_with_realloc == {"malloc", "_Znwm", "_Znam", "calloc", "realloc"}

randomized_method_names == {"malloc", "_Znwm", "_Znam", "calloc"}

\* subq_statement_format.format(n) on a 64 bit system
subq_statement_format(n) == "\taddq $" \o ToString(n) \o ", %rdi"

\* range(0, heap)
padding_range(heap) == 0..(heap - 1)

RECURSIVE randomize_malloc_calls(_, _, _)
randomize_malloc_calls(lines, i, padding) ==
    IF ~(i < Len(lines)) THEN {lines}
    ELSE LET line == lines[i + 1]
         IN  IF is_statement(line) /\ statement(line) = "call"
             THEN IF SplitWSFirst(Strip(rest(line))) \notin randomized_method_names
                  THEN randomize_malloc_calls(lines, i + 1, padding)
                  ELSE UNION { randomize_malloc_calls(
                                   insert(lines, i, Line(subq_statement_format(a), i)),
                                   i + 2, padding) : a \in padding }
             ELSE randomize_malloc_calls(lines, i + 1, padding)

(***************************************************************************)
(* FunctionSection._replace_leave and FunctionSection.pad_stack.  Indices  *)
(* are the 0-based indices of the code; lines[i + 1] is self.lines[i].     *)
(***************************************************************************)
is_leave_instruction(line) == is_statement(line) /\ statement(line) = "leave"

\* _replace_leave, from the value i of its outer loop index on
RECURSIVE _replace_leave_from(_, _)
_replace_leave_from(lines, i) ==
    LET hits == {j \in i..(Len(lines) - 1) : is_leave_instruction(lines[j + 1])}
    IN  IF hits = {} THEN lines
        ELSE LET j == Min(hits)
                 replaced == [lines EXCEPT ![j + 1] = Line("mov %rbp, %rsp", j)]
             IN  _replace_leave_from(insert(replaced, j + 1, Line("popq %rbp", j)), j + 2)

_replace_leave(lines) == _replace_leave_from(lines, 0)

is_bad(lines, i) == Strip(lines[i + 1].content) = ".cfi_endproc"

is_push_instr(line) ==
    /\ is_statement(line)
    /\ LET splitted == SplitWS1(Strip(line.content))
       IN  /\ Len(splitted) = 2
           /\ Strip(splitted[1]) = "pushq"
           /\ StrStartsWith(Strip(splitted[2]), "%rbp")

\* is_real_instruction taking every statement for a real instruction
is_real_instruction_any(line) == is_statement(line)

is_real_instruction(line) == is_statement(line) /\ statement(line) = "popq"

is_ret_instruction(line) == is_statement(line) /\ statement(line) = "ret"

\* "\tsubq ${}, %rsp\n".format(amount) and "\taddq ${}, %rsp\n".format(amount)
grow_statement(amount) == "\tsubq $" \o ToString(amount) \o ", %rsp\n"
shrink_statement(amount) == "\taddq $" \o ToString(amount) \o ", %rsp\n"

\* how pad_stack ends: self.lines, the value returned, the return statement
\* taken, the locals i and j (j = 0 while it is unbound) and what
\* self.lines was before log_failure, if that was called, put the old lines
\* back
returns(lines, value, at, i, j, scanned) ==
    [lines |-> lines, value |-> value, at |-> at, i |-> i, j |-> j, scanned |-> scanned]

\* the loop "search for function label": the final i, and whether the loop
\* was left by the return under is_bad(i)
RECURSIVE label_scan(_, _)
label_scan(lines, i) ==
    IF i < Len(lines) /\ ~is_function_label(lines[i + 1])
    THEN IF is_bad(lines, i) THEN [i |-> i, bad |-> TRUE] ELSE label_scan(lines, i + 1)
    ELSE [i |-> i, bad |-> FALSE]

\* the loop that searches for the first "pushq %rbp"
RECURSIVE push_scan(_, _)
push_scan(lines, i) ==
    IF i < Len(lines) /\ ~is_push_instr(lines[i + 1])
    THEN IF is_bad(lines, i) THEN [i |-> i, bad |-> TRUE] ELSE push_scan(lines, i + 1)
    ELSE [i |-> i, bad |-> FALSE]

\* the loop that searches for a ret instruction from j on; it tests
\* is_bad(i), with the index i the scan started from
RECURSIVE ret_scan(_, _, _)
ret_scan(lines, i, j) ==
    IF j < Len(lines) /\ ~is_ret_instruction(lines[j + 1])
    THEN IF is_bad(lines, i) THEN [j |-> j, bad |-> TRUE] ELSE ret_scan(lines, i, j + 1)
    ELSE [j |-> j, bad |-> FALSE]

\* the loop "while k > i and not is_real_instruction(self.lines[k]): k -= 1"
RECURSIVE pop_scan(_, _, _)
pop_scan(lines, i, k) ==
    IF k > i /\ ~is_real_instruction(lines[k + 1]) THEN pop_scan(lines, i, k - 1) ELSE k

\* the loop "while i < len(self.lines)" over the ret instructions
RECURSIVE patch_returns(_, _, _, _, _)
patch_returns(lines, old_lines, amount, i, j0) ==
    IF ~(i < Len(lines)) THEN returns(lines, "True", "line 284", i, j0, lines)
    ELSE LET found == ret_scan(lines, i, i)
             j == found.j
         IN  IF found.bad THEN returns(lines, "None", "line 268", i, j, lines)
             ELSE IF is_bad(lines, i) THEN returns(lines, "None", "line 271", i, j, lines)
             ELSE IF j = Len(lines) THEN returns(lines, "None", "line 273", i, j, lines)
             ELSE LET k == pop_scan(lines, i, j)
                  IN  IF k = i THEN returns(old_lines, "False", "line 280", i, j, lines)
                      ELSE patch_returns(insert(lines, k, Line(shrink_statement(amount), k)),
                                         old_lines, amount, j + 2, j)

\* FunctionSection.pad_stack(amount) on a section with these lines
pad_stack(lines, amount) ==
    LET old_lines == lines
        replaced == _replace_leave(lines)
        label == label_scan(replaced, 0)
        push == push_scan(replaced, label.i)
    IN  IF label.bad THEN returns(replaced, "None", "line 227", label.i, 0, replaced)
        ELSE IF label.i = Len(replaced)
        THEN returns(old_lines, "False", "line 231", label.i, 0, replaced)
        ELSE IF push.bad THEN returns(replaced, "None", "line 245", push.i, 0, replaced)
        ELSE IF push.i = Len(replaced)
        THEN returns(old_lines, "False", "line 249", push.i, 0, replaced)
        ELSE patch_returns(insert(replaced, push.i + 1, Line(grow_statement(amount), push.i)),
                           old_lines, amount, push.i + 2, 0)

(***************************************************************************)
(* AssemblyFile: the transforms dispatched over self.sections, rendering   *)
(***************************************************************************)
\* for section in self.sections: section.randomize_malloc_calls(padding)
RECURSIVE file_randomize_malloc_calls(_, _, _, _)
file_randomize_malloc_calls(secs, k, os, padding) ==
    IF k > Len(secs) THEN {os}
    ELSE UNION { file_randomize_malloc_calls(secs, k + 1,
                                             [os EXCEPT ![secs[k]].lines = ls], padding) :
                 ls \in randomize_malloc_calls(os[secs[k]].lines, 0, padding) }

\* for section in self.sections: section.randomize_segment(segment_name)
RECURSIVE randomize_sub_segments(_, _, _, _)
randomize_sub_segments(secs, k, os, segment_name) ==
    IF k > Len(secs) THEN {os}
    ELSE UNION { randomize_sub_segments(secs, k + 1,
                                        [os EXCEPT ![secs[k]].lines = ls], segment_name) :
                 ls \in randomize_segment(os[secs[k]].lines, 0, segment_name) }

\* the strings of the lines Section.__str__ keeps
RECURSIVE kept_contents(_)
kept_contents(lines) ==
    IF Len(lines) = 0 THEN <<>>
    ELSE IF startswith(Head(lines), ".loc ") THEN kept_contents(Tail(lines))
    ELSE <<Head(lines).content>> \o kept_contents(Tail(lines))

\* Section.__str__
section_str(sec) == join("\n", kept_contents(sec.lines))

\* AssemblyFile.__str__
file_str(secs, os, lines) ==
    IF Len(secs) > 0
    THEN join("\n/****/\n", [k \in 1..Len(secs) |-> section_str(os[secs[k]])]) \o "\n"
    ELSE join("\n", [k \in 1..Len(lines) |-> lines[k].content])

\* the references to n freshly built section objects
Refs(n) == [k \in 1..n |-> k]

\* AssemblyFile.from_file: the Line objects of the file's text
from_file(text) == new_lines(readlines_rstrip(text), 0)

(***************************************************************************)
(* class AssemblyProcessor                                                 *)
(***************************************************************************)
config_default ==
    [heap |-> 0, stack |-> 0, bss |-> FALSE, data |-> FALSE, rodata |-> FALSE,
     file_structure |-> FALSE]

\* the first test of process: is any transform configured?
any_configured(cfg) ==
    cfg.file_structure \/ cfg.heap > 0 \/ cfg.stack > 0 \/ cfg.bss \/ cfg.data \/ cfg.rodata

\* process raises when AssemblyFile.from_file does
process_raises(text, cfg) == any_configured(cfg) /\ unknown_assembler(from_file(text))

\* one transform step of process over the set of possible (sections, objs) pairs
step_heap(pairs, cfg) ==
    IF cfg.heap > 0
    THEN UNION { {<<p[1], o>> : o \in file_randomize_malloc_calls(p[1], 1, p[2], padding_range(cfg.heap))} :
                 p \in pairs }
    ELSE pairs

step_segment(pairs, enabled, segment_name) ==
    IF enabled
    THEN UNION { {<<p[1], o>> : o \in randomize_sub_segments(p[1], 1, p[2], segment_name)} :
                 p \in pairs }
    ELSE pairs

\* every text process(file, small_changes) can leave in the file
process(text, cfg, small_changes) ==
    IF ~any_configured(cfg) THEN {text}
    ELSE LET lines == from_file(text)
             os == _init_sections(lines)
             secs == Refs(Len(os))
             p1 == IF cfg.file_structure
                   THEN {<<s, os>> : s \in randomize_file_structure(secs, lines, small_changes)}
                   ELSE {<<secs, os>>}
             p2 == step_heap(p1, cfg)
             p3 == step_segment(p2, cfg.bss, "bss")
             p4 == step_segment(p3, cfg.data, "data")
             p5 == step_segment(p4, cfg.rodata, "rodata")
         IN  {file_str(p[1], p[2], lines) : p \in p5}

(***************************************************************************)
(* State.                                                                  *)
(*   _lines, objs, sections   one AssemblyFile: its line list, its section *)
(*                            objects and its list of section references   *)
(*   last, old_sections, old_objs, arg                                     *)
(*                            the last method called on it, the value of   *)
(*                            sections and objs when it was called and its *)
(*                            small_changes argument                       *)
(*   file, input_file_content, config, processor, pc, phase, i, ret         *)
(*                            process_assembler: the text of the input     *)
(*                            file on disk, the locals of the function and *)
(*                            its position (phase: the loop it is in)      *)
(*   environ, original, rc, calls, failures, assembled, fs_mode            *)
(*                            the RANDOMIZATION configuration and the file *)
(*                            text the driver was started with, the exit   *)
(*                            status of the last assembler process, the    *)
(*                            number of assembler invocations and of those *)
(*                            reported as failed, the text the last        *)
(*                            invocation was run on and what the last      *)
(*                            processor run did with the file structure    *)
(*   section, old_lines, method, param, result                              *)
(*                            one Section object: the object, the copy of   *)
(*                            its lines taken when the last method was     *)
(*                            called on it, that method, its arguments,    *)
(*                            and how pad_stack returned (see returns)     *)
(*   locals                   a call of a Section method taken loop by     *)
(*                            loop: the loop it is at (pc), its locals i,  *)
(*                            j and k, and the highest index of a line the *)
(*                            running loop has inserted or rewritten       *)
(*                            (mark, -1 for none)                          *)
(***************************************************************************)
VARIABLES _lines, objs, sections, last, old_sections, old_objs, arg,
          file, input_file_content, config, processor, pc, phase, i, ret,
          environ, original, rc, calls, failures, assembled, fs_mode,
          section, old_lines, method, param, result, locals

fileVars == <<_lines, objs, sections, last, old_sections, old_objs, arg>>

driverVars == <<file, input_file_content, config, processor, pc, phase, i, ret,
                environ, original, rc, calls, failures, assembled, fs_mode>>

sectionVars == <<section, old_lines, method, param, result, locals>>

vars == <<fileVars, driverVars, sectionVars>>

\* no driver is running
DriverIdle ==
    /\ file = "" /\ input_file_content = "" /\ config = config_default
    /\ processor = config_default /\ pc = "idle" /\ phase = "A" /\ i = 0
    /\ ret = "None" /\ environ = config_default /\ original = "" /\ rc = 0
    /\ calls = 0 /\ failures = 0 /\ assembled = "" /\ fs_mode = "none"

\* no AssemblyFile object is under test
FileIdle ==
    /\ _lines = <<>> /\ objs = <<>> /\ sections = <<>> /\ last = "none"
    /\ old_sections = <<>> /\ old_objs = <<>> /\ arg = FALSE

\* no Section object is under test
SectionIdle ==
    /\ section = [cls |-> "Section", lines |-> <<>>] /\ old_lines = <<>>
    /\ method = "none"
    /\ param = [amount |-> 0, segment_name |-> "", padding |-> {}]
    /\ result = [lines |-> <<>>, value |-> "None", at |-> "", i |-> 0, j |-> 0,
                 scanned |-> <<>>]
    /\ locals = [pc |-> "", i |-> 0, j |-> 0, k |-> 0, mark |-> -1]

\* the line texts the inputs are built from
LineTexts == {"", "# -- Begin f", "\t.cfi_endproc", "\t.text", "\tcall malloc"}

\* AssemblyFile(strs): __init__ calls add_lines on the empty file
Init ==
    \E n \in 1..MaxLines : \E strs \in [1..n -> LineTexts] :
        /\ ~unknown_assembler(new_lines(strs, 0))
        /\ _lines = new_lines(strs, 0)
        /\ objs = _init_sections(_lines)
        /\ sections = Refs(Len(objs))
        /\ last = "__init__"
        /\ old_sections = <<>>
        /\ old_objs = <<>>
        /\ arg = FALSE
        /\ DriverIdle
        /\ SectionIdle

\* AssemblyFile.add_lines(strs)
add_lines ==
    \E strs \in [1..1 -> LineTexts] :
        /\ Len(_lines) + Len(strs) <= MaxLines
        /\ _lines' = _lines \o new_lines(strs, Len(_lines))
        /\ objs' = _init_sections(_lines')
        /\ sections' = Refs(Len(objs'))
        /\ last' = "add_lines"
        /\ old_sections' = sections
        /\ old_objs' = objs
        /\ arg' = FALSE
        /\ UNCHANGED <<driverVars, sectionVars>>

\* AssemblyFile.randomize_file_structure(small_changes)
RandomizeFileStructure ==
    \E small_changes \in BOOLEAN :
        /\ Len(sections) <= MaxSections
        /\ \E out \in randomize_file_structure(sections, _lines, small_changes) :
              sections' = out
        /\ last' = "randomize_file_structure"
        /\ old_sections' = sections
        /\ old_objs' = objs
        /\ arg' = small_changes
        /\ UNCHANGED <<_lines, objs>>
        /\ UNCHANGED <<driverVars, sectionVars>>

Next == add_lines \/ RandomizeFileStructure

Spec == Init /\ [][Next]_vars

(***************************************************************************)
(* Properties of the assembly-file model (specification Spec).             *)
(***************************************************************************)
\* the lines of the listed sections, concatenated in list order
RECURSIVE Flatten(_, _)
Flatten(secs, os) ==
    IF Len(secs) = 0 THEN <<>>
    ELSE os[secs[1]].lines \o Flatten(SubSeq(secs, 2, Len(secs)), os)

Occurrences(seq, x) == Cardinality({k \in 1..Len(seq) : seq[k] = x})

IsPermutationOf(new, old) ==
    /\ Len(new) = Len(old)
    /\ \A k \in 1..Len(old) : Occurrences(new, old[k]) = 1
    /\ \A k \in 1..Len(new) : Occurrences(old, new[k]) = 1

AfterRFS == last = "randomize_file_structure"

\* C7: after randomize_file_structure, in either mode, the section list is
\* a permutation of the section list before the call: the same number of
\* sections, every section occurring exactly once, hence every original
\* line exactly once in the concatenation of the sections' lines.
C7_OrderOnly ==
    AfterRFS =>
        /\ IsPermutationOf(sections, old_sections)
        /\ Len(Flatten(sections, objs)) = Len(Flatten(old_sections, old_objs))

\* C8: for a file with at least 2 sections and either value of
\* small_changes, the sections at the first and at the last position after
\* randomize_file_structure are the sections that were first and last
\* before the call, with the same lines; this covers the first section of
\* a CFI-dialect file.
C8_PinInvariant ==
    (AfterRFS /\ Len(old_sections) >= 2) =>
        /\ sections[1] = old_sections[1]
        /\ sections[Len(sections)] = old_sections[Len(old_sections)]
        /\ objs[sections[1]].lines = old_objs[old_sections[1]].lines
        /\ objs[sections[Len(sections)]].lines
              = old_objs[old_sections[Len(old_sections)]].lines

\* a shuffle of a CFI-dialect file with four sections that moved an
\* interior section
C8_Witness ==
    /\ AfterRFS
    /\ ~arg
    /\ is_gcc(_lines)
    /\ Len(old_sections) = 4
    /\ sections[2] # old_sections[2]

\* C9: with small_changes, the interior sections (all but the first and the
\* last) are taken in consecutive pairs and each pair (a, b) is left as
\* (a, b) or (b, a) at its two positions; an odd trailing interior section
\* and the two pinned sections stay where they were.
C9_SmallChanges ==
    (AfterRFS /\ arg) =>
        /\ Len(sections) = Len(old_sections)
        /\ \A k \in 1..Len(old_sections) :
              LET n == Len(old_sections)
                  interior == k > 1 /\ k < n
                  first_of_pair == interior /\ k % 2 = 0 /\ k + 1 < n
                  second_of_pair == interior /\ k % 2 = 1
              IN  IF first_of_pair
                  THEN <<sections[k], sections[k + 1]>> \in
                          {<<old_sections[k], old_sections[k + 1]>>,
                           <<old_sections[k + 1], old_sections[k]>>}
                  ELSE second_of_pair \/ sections[k] = old_sections[k]

\* C10: after construction and after every add_lines, the lines of all
\* sections concatenated in section order are exactly the file's line
\* sequence.
C10_PartitionComplete ==
    last \in {"__init__", "add_lines"} => Flatten(sections, objs) = _lines

\* add_lines re-partitioned a file whose section list had been randomized,
\* and the new partition has an empty first section and two more sections
C10_Witness ==
    /\ last = "add_lines"
    /\ Len(old_sections) > Len(old_objs)
    /\ Len(sections) >= 3
    /\ objs[sections[1]].lines = <<>>

\* the lines of a text, each without its terminating "\n"
RECURSIVE TextLines(_)
TextLines(text) ==
    LET hits == {k \in 1..Len(text) : Char(text, k) = "\n"}
    IN  IF text = "" THEN <<>>
        ELSE IF hits = {} THEN <<text>>
        ELSE <<SubSeq(text, 1, Min(hits) - 1)>>
                \o TextLines(SubSeq(text, Min(hits) + 1, Len(text)))

\* the seq without its members in the set drop
RECURSIVE Without(_, _)
Without(seq, drop) ==
    IF Len(seq) = 0 THEN <<>>
    ELSE IF Head(seq) \in drop THEN Without(Tail(seq), drop)
    ELSE <<Head(seq)>> \o Without(Tail(seq), drop)

\* the strings of the file's lines
Contents(lines) == [k \in 1..Len(lines) |-> lines[k].content]

\* the line is a ".loc" debug directive
IsLoc(content) == StrStartsWith(Collapse(Strip(content)), ".loc ")

\* what str(AssemblyFile) is for the file as it stands
Rendered == TextLines(file_str(sections, objs, _lines))

\* C11: a file that was constructed (or extended) and not transformed
\* renders as its input lines without the ".loc" lines, once the
\* "/****/" separator lines are taken out of the rendering: no other line
\* is added, dropped or moved, also when a section is empty.
C11_RoundTrip ==
    last \in {"__init__", "add_lines"} =>
        Without(Rendered, {"/****/"})
            = Without(Contents(_lines), {c \in LineTexts : IsLoc(c)})

\* C18: after partitioning, every section of the file, the last one
\* included, is a FunctionSection exactly if one of its lines is a function
\* label or matches the "Begin" marker.
C18_FunctionSectionPromotion ==
    last \in {"__init__", "add_lines"} =>
        \A k \in 1..Len(sections) :
            LET sec == objs[sections[k]]
            IN  sec.cls = "FunctionSection" <=>
                    \E n \in 1..Len(sec.lines) :
                        \/ is_function_label(sec.lines[n])
                        \/ libfirm_begin_pattern(sec.lines[n].content)

(***************************************************************************)
(* process_assembler, the assemble-verify-retry driver.                    *)
(***************************************************************************)
\* the input files the driver is started on: one of the CFI dialect, one
\* of the "Begin" comment dialect and one of neither
gcc_input == "\t.text\nmain:\n\t.cfi_startproc\n\tcall malloc\n\t.cfi_endproc\n\t.data\nx:\n"

libfirm_input == "# -- Begin main\nmain:\n\tcall malloc\n\n\t.loc 1 1\n"

unknown_input == "main:\n\tret\n"

DriverInputs == {gcc_input, libfirm_input, unknown_input}

\* the configurations in RANDOMIZATION, completed with the defaults
\* (the three sub segment switches are set together)
Configs ==
    {[heap |-> h, stack |-> st, bss |-> seg, data |-> seg, rodata |-> seg,
      file_structure |-> fs] :
        h \in {0, MaxHeap}, st \in {0, MaxStack}, seg \in BOOLEAN, fs \in BOOLEAN}

\* the values proc.poll() can have after communicate(): the exit status, or
\* the negated number of the signal that ended the process
ExitStatuses == {-11, 0, 1}

\* the ranges of the three loops
strict_attempts == 2
relaxed_attempts == 6
fallback_attempts == 6

\* the loops with a relaxed phase that is one attempt short
attempts_short(ph) ==
    IF ph = "A" THEN strict_attempts
    ELSE IF ph = "B" THEN relaxed_attempts - 1
    ELSE fallback_attempts

attempts(ph) ==
    IF ph = "A" THEN strict_attempts
    ELSE IF ph = "B" THEN relaxed_attempts
    ELSE fallback_attempts

\* every loop calling process with the default small_changes = False
small_changes_never(ph) == FALSE

\* the small_changes argument the loop of phase ph passes to process
small_changes_of(ph) == ph = "B"

\* what exec returns for a process that ended with status: the error text
\* or None
exec(status) == IF status > 0 THEN "err" ELSE "None"

\* a driver that never takes the "return" of a loop
is_none_never(r) == FALSE

\* the test "ret is None"
is_none(r) == r = "None"

\* store_original_assm() that leaves the file as it is
store_original_assm_skipped(current, content) == current

\* the text in the input file after store_original_assm()
store_original_assm(current, content) == content

\* input_file_content left at its initial value ""
read_nothing(text) == ""

\* what f.read() leaves in input_file_content
read(text) == text

\* AssemblyProcessor(config).config
AssemblyProcessor(cfg) == [k \in DOMAIN config_default |-> cfg[k]]

\* what a run of process does with the file structure
file_structure_mode(cfg, small_changes) ==
    IF ~any_configured(cfg) \/ ~cfg.file_structure THEN "none"
    ELSE IF small_changes THEN "small_changes"
    ELSE "shuffle"

DriverInit ==
    /\ file \in DriverInputs
    /\ environ \in Configs
    /\ original = file
    /\ config = environ
    /\ input_file_content = ""
    /\ processor = config_default
    /\ pc = "start"
    /\ phase = "A"
    /\ i = 0
    /\ ret = "None"
    /\ rc = 0
    /\ calls = 0
    /\ failures = 0
    /\ assembled = ""
    /\ fs_mode = "none"
    /\ FileIdle
    /\ SectionIdle

\* lines 483-507: read the input file, build the processor
Capture ==
    /\ pc = "start"
    /\ input_file_content' = read(file)
    /\ processor' = AssemblyProcessor(config)
    /\ pc' = "process"
    /\ UNCHANGED <<file, config, phase, i, ret, environ, original, rc, calls,
                   failures, assembled, fs_mode>>
    /\ UNCHANGED <<fileVars, sectionVars>>

\* processor.process(input_file, ...) in the loop of the current phase with
\* the processor cfg: the file is rewritten
run_process(cfg) ==
    /\ ~process_raises(file, cfg)
    /\ \E text \in process(file, cfg, small_changes_of(phase)) : file' = text
    /\ fs_mode' = file_structure_mode(cfg, small_changes_of(phase))
    /\ pc' = "exec"
    /\ UNCHANGED <<input_file_content, config, phase, i, ret, environ, original,
                   rc, calls, failures, assembled>>
    /\ UNCHANGED <<fileVars, sectionVars>>

\* line 509
ProcessStrict ==
    /\ pc = "process" /\ phase = "A"
    /\ run_process(processor)
    /\ UNCHANGED processor

\* line 515
ProcessRelaxed ==
    /\ pc = "process" /\ phase = "B"
    /\ run_process(processor)
    /\ UNCHANGED processor

\* lines 526-527
ProcessFallback ==
    /\ pc = "process" /\ phase = "C"
    /\ processor' = AssemblyProcessor(config)
    /\ run_process(processor')

\* AssemblyFile.from_file raises ValueError inside process; nothing
\* catches it
ProcessRaises ==
    /\ pc = "process"
    /\ process_raises(file, IF phase = "C" THEN AssemblyProcessor(config) ELSE processor)
    /\ pc' = "raised"
    /\ UNCHANGED <<file, input_file_content, config, processor, phase, i, ret,
                   environ, original, rc, calls, failures, assembled, fs_mode>>
    /\ UNCHANGED <<fileVars, sectionVars>>

\* ret = exec(" ".join(call)) at lines 510, 516, 528 and 533
run_exec(next_pc) ==
    /\ \E status \in ExitStatuses :
          /\ rc' = status
          /\ ret' = exec(status)
          /\ failures' = IF is_none(exec(status)) THEN failures ELSE failures + 1
    /\ calls' = calls + 1
    /\ assembled' = file
    /\ pc' = next_pc
    /\ UNCHANGED <<file, input_file_content, config, processor, phase, i,
                   environ, original, fs_mode>>
    /\ UNCHANGED <<fileVars, sectionVars>>

Exec == pc = "exec" /\ run_exec("check")

\* "if ret is None: return" in the three loops
Return ==
    /\ pc = "check"
    /\ is_none(ret)
    /\ pc' = "returned"
    /\ UNCHANGED <<file, input_file_content, config, processor, phase, i, ret,
                   environ, original, rc, calls, failures, assembled, fs_mode>>
    /\ UNCHANGED <<fileVars, sectionVars>>

\* store_original_assm() and the step of the loop
StoreOriginal ==
    /\ pc = "check"
    /\ ~is_none(ret)
    /\ file' = store_original_assm(file, input_file_content)
    /\ IF i + 1 < attempts(phase)
       THEN /\ i' = i + 1
            /\ pc' = "process"
            /\ phase' = phase
       ELSE /\ i' = 0
            /\ phase' = IF phase = "A" THEN "B" ELSE phase
            /\ pc' = IF phase = "A" THEN "process"
                     ELSE IF phase = "B" THEN "branch"
                     ELSE "final"
    /\ UNCHANGED <<input_file_content, config, processor, ret, environ, original,
                   rc, calls, failures, assembled, fs_mode>>
    /\ UNCHANGED <<fileVars, sectionVars>>

\* lines 522-524: file structure randomization is switched off
DisableFileStructure ==
    /\ pc = "branch"
    /\ processor.file_structure
    /\ config' = [config EXCEPT !.file_structure = FALSE]
    /\ phase' = "C"
    /\ pc' = "process"
    /\ UNCHANGED <<file, input_file_content, processor, i, ret, environ, original,
                   rc, calls, failures, assembled, fs_mode>>
    /\ UNCHANGED <<fileVars, sectionVars>>

\* line 522, condition false
SkipFallback ==
    /\ pc = "branch"
    /\ ~processor.file_structure
    /\ pc' = "final"
    /\ UNCHANGED <<file, input_file_content, config, processor, phase, i, ret,
                   environ, original, rc, calls, failures, assembled, fs_mode>>
    /\ UNCHANGED <<fileVars, sectionVars>>

\* line 533: the assembler is run on the restored input
FinalExec == pc = "final" /\ run_exec("final_check")

\* lines 534-536
Exit1 ==
    /\ pc = "final_check"
    /\ ~is_none(ret)
    /\ pc' = "exit1"
    /\ UNCHANGED <<file, input_file_content, config, processor, phase, i, ret,
                   environ, original, rc, calls, failures, assembled, fs_mode>>
    /\ UNCHANGED <<fileVars, sectionVars>>

\* line 534, condition false: the function ends
FinalReturn ==
    /\ pc = "final_check"
    /\ is_none(ret)
    /\ pc' = "returned"
    /\ UNCHANGED <<file, input_file_content, config, processor, phase, i, ret,
                   environ, original, rc, calls, failures, assembled, fs_mode>>
    /\ UNCHANGED <<fileVars, sectionVars>>

DriverNext ==
    \/ Capture
    \/ ProcessStrict
    \/ ProcessRelaxed
    \/ ProcessFallback
    \/ ProcessRaises
    \/ Exec
    \/ Return
    \/ StoreOriginal
    \/ DisableFileStructure
    \/ SkipFallback
    \/ FinalExec
    \/ Exit1
    \/ FinalReturn

DriverSpec == DriverInit /\ [][DriverNext]_vars

(***************************************************************************)
(* Properties of the driver (specifications DriverSpec, DriverFairSpec).   *)
(***************************************************************************)
Returned == pc = "returned"
Fatal == pc = "exit1"
Raised == pc = "raised"
Terminated == Returned \/ Fatal \/ Raised

\* 2 + 6 + (6 if file-structure randomization is configured) + 1
Budget == 2 + 6 + (IF environ.file_structure THEN 6 ELSE 0) + 1

C3_SuccessPath ==
    /\ [](Returned => (ret = "None" /\ failures = calls - 1 /\ file = assembled))
    /\ [][((pc \in {"check", "final_check"}) /\ ret = "None")
            => (pc' = "returned" /\ calls' = calls /\ file' = file /\ failures' = failures)]_vars

\* success on the 3rd invocation, the randomized file left in place
C3_Witness == Returned /\ calls = 3 /\ failures = 2 /\ file # original

\* C4: whenever the processor is about to run, in any of the three phases,
\* the input file holds the original text.
C4_NoCumulativeMutation == pc = "process" => file = original

\* a processor run of the fallback phase after an attempt that had changed
\* the file
C4_Witness == pc = "process" /\ phase = "C" /\ i > 0 /\ assembled # original

\* C5: attempts 1-2 shuffle the file structure fully, attempts 3-8 use the
\* small-changes mode, attempts 9-14 exist only when file_structure was
\* configured and the 8 earlier attempts failed, and they run the processor
\* with file_structure off and the other transforms as configured; the
\* phases follow each other in this order only.
C5_PhasePolicy ==
    /\ [](pc = "exec" =>
            LET n == calls + 1
                fs == environ.file_structure /\ any_configured(environ)
            IN  /\ (phase = "A") <=> (n \in 1..2)
                /\ (phase = "B") <=> (n \in 3..8)
                /\ (phase = "C") <=> (n \in 9..14)
                /\ phase = "A" =>
                      /\ fs_mode = IF fs THEN "shuffle" ELSE "none"
                      /\ processor = environ
                /\ phase = "B" =>
                      /\ fs_mode = IF fs THEN "small_changes" ELSE "none"
                      /\ processor = environ
                /\ phase = "C" =>
                      /\ environ.file_structure
                      /\ failures = calls
                      /\ fs_mode = "none"
                      /\ processor = [environ EXCEPT !.file_structure = FALSE])
    /\ [][phase' # phase => <<phase, phase'>> \in {<<"A", "B">>, <<"B", "C">>}]_vars

\* an attempt of the fallback phase in which heap padding rewrote the file
C5_Witness == pc = "exec" /\ phase = "C" /\ environ.heap > 0 /\ file # original

\* C6: an invocation is reported as failed exactly when the assembler
\* process ended with a non-zero status, negative statuses included.
C6_OutcomeClassification ==
    (pc \in {"check", "final_check"}) => ((ret # "None") <=> (rc # 0))

(***************************************************************************)
(* One Section object and the transforms that work on its lines alone      *)
(* (specification SectionSpec).                                            *)
(***************************************************************************)
\* the line texts the sections are built from
SectionTexts == {"", "x:", "y:", "\t.data", "\tcall malloc", "\tcall realloc"}

\* the padding ranges: range(1, 3)
Paddings == {1..2}

\* the segment names randomize_segment accepts
ShuffledSegments == {"bss", "data", "rodata"}

no_param == [amount |-> 0, segment_name |-> "", padding |-> {}]

no_locals == [pc |-> "", i |-> 0, j |-> 0, k |-> 0, mark |-> -1]

no_result ==
    [lines |-> <<>>, value |-> "None", at |-> "", i |-> 0, j |-> 0, scanned |-> <<>>]

\* Section.from_lines(lines) of the first lines of a file
SectionInit ==
    \E n \in 1..MaxSectionLines : \E strs \in [1..n -> SectionTexts] :
        /\ section = from_lines(new_lines(strs, 0))
        /\ old_lines = <<>>
        /\ method = "from_lines"
        /\ param = no_param
        /\ result = no_result
        /\ locals = no_locals
        /\ FileIdle
        /\ DriverIdle

\* Section.randomize_malloc_calls(padding)
RandomizeMallocCalls ==
    \E padding \in Paddings :
        /\ Len(section.lines) <= MaxSectionLines
        /\ \E out \in randomize_malloc_calls(section.lines, 0, padding) :
              section' = [section EXCEPT !.lines = out]
        /\ old_lines' = section.lines
        /\ method' = "randomize_malloc_calls"
        /\ param' = [no_param EXCEPT !.padding = padding]
        /\ result' = no_result
        /\ UNCHANGED locals
        /\ UNCHANGED <<fileVars, driverVars>>

\* Section.randomize_segment(segment_name)
RandomizeSegment ==
    \E segment_name \in ShuffledSegments :
        /\ Len(section.lines) <= MaxSectionLines
        /\ \E out \in randomize_segment(section.lines, 0, segment_name) :
              section' = [section EXCEPT !.lines = out]
        /\ old_lines' = section.lines
        /\ method' = "randomize_segment"
        /\ param' = [no_param EXCEPT !.segment_name = segment_name]
        /\ result' = no_result
        /\ UNCHANGED locals
        /\ UNCHANGED <<fileVars, driverVars>>

SectionNext == RandomizeMallocCalls \/ RandomizeSegment

SectionSpec == SectionInit /\ [][SectionNext]_vars

(***************************************************************************)
(* Properties of the section transforms (specification SectionSpec).       *)
(***************************************************************************)
\* the allocation functions whose calls get a padding instruction
AllocationFunctions == {"malloc", "_Znwm", "_Znam", "calloc"}

\* the line is a statement "call f ..." with f an allocation function
IsAllocationCall(line) ==
    /\ is_statement(line)
    /\ statement(line) = "call"
    /\ SplitWSFirst(Strip(rest(line))) \in AllocationFunctions

\* the line adds some amount of the padding range to the first-argument
\* register
IsHeapPadding(line, padding) ==
    \E a \in padding : line.content = "\taddq $" \o ToString(a) \o ", %rdi"

\* new is old with one padding instruction put right before each call of an
\* allocation function and nothing else changed
RECURSIVE PaddedCalls(_, _, _)
PaddedCalls(old, new, padding) ==
    IF Len(old) = 0 THEN Len(new) = 0
    ELSE IF IsAllocationCall(Head(old))
    THEN /\ Len(new) >= 2
         /\ IsHeapPadding(new[1], padding)
         /\ new[2] = Head(old)
         /\ PaddedCalls(Tail(old), SubSeq(new, 3, Len(new)), padding)
    ELSE /\ Len(new) >= 1
         /\ new[1] = Head(old)
         /\ PaddedCalls(Tail(old), Tail(new), padding)

\* C14: after randomize_malloc_calls(padding), a line was inserted right
\* before a statement exactly if that statement is a call of malloc, _Znwm,
\* _Znam or calloc; every other line (calls of other functions included)
\* keeps its content and its place among the old lines; every inserted
\* line adds an amount a of the padding range to %rdi.
C14_HeapPaddingPlacement ==
    method = "randomize_malloc_calls" =>
        PaddedCalls(old_lines, section.lines, param.padding)

\* a call of malloc and a call of realloc in one section: the first got a
\* padding instruction, the second did not
C14_Witness ==
    /\ method = "randomize_malloc_calls"
    /\ \E k \in 1..Len(old_lines) : IsAllocationCall(old_lines[k])
    /\ \E k \in 1..Len(old_lines) : old_lines[k].content = "\tcall realloc"
    /\ Len(section.lines) > Len(old_lines)

\* the 0-based index of the first section-splitting line after the index
\* idx, or len(lines)
FirstSplitAfter(lines, idx) ==
    LET hits == {k \in (idx + 1)..(Len(lines) - 1) : split_section_before(lines[k + 1])}
    IN  IF hits = {} THEN Len(lines) ELSE Min(hits)

\* the line at the 0-based index idx starts the segment
IsSegmentStart(lines, idx, segment_name) ==
    \/ startswith(lines[idx + 1], "." \o segment_name)
    \/ startswith(lines[idx + 1], ".section " \o segment_name)

\* the segment extents <<a, b>> of the lines from index i0 on: a the index
\* of a segment-start line, b that of the first section-splitting line
\* after it
RECURSIVE Extents(_, _, _)
Extents(lines, i0, segment_name) ==
    LET starts == {k \in i0..(Len(lines) - 1) : IsSegmentStart(lines, k, segment_name)}
    IN  IF starts = {} THEN {}
        ELSE LET j == FirstSplitAfter(lines, Min(starts))
             IN  IF j = Len(lines) THEN {}
                 ELSE {<<Min(starts), j>>} \cup Extents(lines, j, segment_name)

\* C15: randomize_segment leaves the same multiset of lines, every line
\* outside a segment extent (the segment-start line and the terminating
\* section-splitting line included) at its position, and inside an extent
\* only the order of the whole label-delimited sub-runs differs.
C15_SegmentShuffleIsPermutation ==
    method = "randomize_segment" =>
        LET new == section.lines
            ext == Extents(old_lines, 0, param.segment_name)
        IN  /\ IsPermutationOf(new, old_lines)
            /\ \A k \in 1..Len(old_lines) :
                  (\A e \in ext : ~(e[1] + 1 < k /\ k < e[2] + 1)) => new[k] = old_lines[k]
            /\ \A e \in ext :
                  \E order \in shuffle(subsections(SubSeq(old_lines, e[1] + 2, e[2]), <<<<>>>>)) :
                      SubSeq(new, e[1] + 2, e[2]) = concat(order)

\* randomize_segment("data") ran on a section with a ".data" line, two
\* sub-runs that can be told apart after it and then a section-splitting
\* line
C15_Witness ==
    /\ method = "randomize_segment"
    /\ param.segment_name = "data"
    /\ \E e \in Extents(old_lines, 0, "data") :
          \E order \in shuffle(subsections(SubSeq(old_lines, e[1] + 2, e[2]), <<<<>>>>)) :
              concat(order) # SubSeq(old_lines, e[1] + 2, e[2])

\* C16: the extent randomize_segment shuffles for a segment-start line
\* ends at the first section-splitting line after that line; so a section
\* whose extent holds sub-runs that can be told apart has an outcome of
\* randomize_segment with these sub-runs in another order.
C16_SegmentExtent ==
    \A segment_name \in ShuffledSegments :
        LET lines == section.lines
        IN  /\ \A idx \in 0..(Len(lines) - 1) :
                  IsSegmentStart(lines, idx, segment_name) =>
                      segment_end(lines, idx) = FirstSplitAfter(lines, idx)
            /\ \A e \in Extents(lines, 0, segment_name) :
                  LET part == SubSeq(lines, e[1] + 2, e[2])
                  IN  (\E order \in shuffle(subsections(part, <<<<>>>>)) : concat(order) # part)
                          => \E out \in randomize_segment(lines, 0, segment_name) :
                                out # lines

\* C17: split_section_before holds of a line exactly if the line is a
\* statement and is blank, a segment directive (bss, data, rodata, text)
\* or the line with the number 0.
C17_SectionSplitRule ==
    \A k \in 1..Len(section.lines) :
        LET line == section.lines[k]
        IN  split_section_before(line) <=>
                /\ is_statement(line)
                /\ \/ Strip(line.content) = ""
                   \/ is_segment_statement(line)
                   \/ line.number = 0

(***************************************************************************)
(* One FunctionSection object and pad_stack (specification                 *)
(* FunctionSectionSpec).                                                   *)
(***************************************************************************)
\* the line texts the function sections are built from
FunctionTexts ==
    {"f:", "\tpushq %rbp", "\tpopq %rbp", "\tret", "\tleave", "\t.cfi_endproc"}

\* the amounts the stack is padded by
StackAmounts == {8}

\* FunctionSection(lines) of the first lines of a file
FunctionSectionInit ==
    \E n \in 1..MaxFunctionLines : \E strs \in [1..n -> FunctionTexts] :
        /\ section = FunctionSection(new_lines(strs, 0))
        /\ old_lines = <<>>
        /\ method = "__init__"
        /\ param = no_param
        /\ result = no_result
        /\ locals = no_locals
        /\ FileIdle
        /\ DriverIdle

\* FunctionSection.pad_stack(amount)
PadStack ==
    \E amount \in StackAmounts :
        /\ Len(section.lines) <= MaxFunctionLines
        /\ result' = pad_stack(section.lines, amount)
        /\ section' = [section EXCEPT !.lines = result'.lines]
        /\ old_lines' = section.lines
        /\ method' = "pad_stack"
        /\ param' = [no_param EXCEPT !.amount = amount]
        /\ UNCHANGED locals
        /\ UNCHANGED <<fileVars, driverVars>>

FunctionSectionNext == PadStack

FunctionSectionSpec == FunctionSectionInit /\ [][FunctionSectionNext]_vars

(***************************************************************************)
(* Properties of pad_stack (specification FunctionSectionSpec).            *)
(***************************************************************************)
IsSentinel(line) == Strip(line.content) = ".cfi_endproc"

\* the position of the first frame-pointer push at or after the first
\* function label of the lines, 0 if there is none
ProloguePush(lines) ==
    LET labels == {k \in 1..Len(lines) : is_function_label(lines[k])}
        pushes == {k \in 1..Len(lines) : is_push_instr(lines[k]) /\ labels # {} /\ k >= Min(labels)}
    IN  IF pushes = {} THEN 0 ELSE Min(pushes)

\* the position of the first sentinel after the prologue push, 0 if there
\* is none
EndOfFunction(lines) ==
    LET ends == {k \in 1..Len(lines) : IsSentinel(lines[k]) /\ k > ProloguePush(lines)}
    IN  IF ProloguePush(lines) = 0 \/ ends = {} THEN 0 ELSE Min(ends)

\* the line is a popq instruction, a ret instruction
IsPop(line) == is_statement(line) /\ SplitWSFirst(Strip(line.content)) = "popq"
IsReturn(line) == is_statement(line) /\ SplitWSFirst(Strip(line.content)) = "ret"

\* the lines after the position k
After(lines, k) == SubSeq(lines, k + 1, Len(lines))

\* pad_stack returned from the loop over the ret instructions or after it
ScannedForReturns ==
    /\ method = "pad_stack"
    /\ result.at \in {"line 268", "line 271", "line 273", "line 280", "line 284"}

\* pad_stack gave up: the sentinel came before the function label or before
\* the push, there is no label or no push, or a ret has no popq before it
Aborted ==
    /\ method = "pad_stack"
    /\ result.at \in {"line 227", "line 231", "line 245", "line 249", "line 280"}

\* C12: pad_stack on a function section without a push of the frame pointer
\* (with or without leave instructions or a .cfi_endproc line) leaves the
\* lines as they were and returns False.
C12_PadStackAtomicity ==
    (method = "pad_stack" /\ \A k \in 1..Len(old_lines) : ~is_push_instr(old_lines[k])) =>
        /\ section.lines = old_lines
        /\ result.value = "False"

\* C13: whenever pad_stack aborts, the lines afterwards are the lines
\* before the call: nothing of the leave replacement and of the insertions
\* of the call remains.
C13_RollbackWholeFunction == Aborted => section.lines = old_lines

\* C19: once the scan for ret instructions has come to the first
\* .cfi_endproc after the prologue it stops: the call does not fail for a
\* ret behind that sentinel, and no line behind the sentinel is inserted or
\* changed (other than by the leave replacement).
C19_ReturnScanStopsAtSentinel ==
    (ScannedForReturns /\ EndOfFunction(result.scanned) > 0) =>
        /\ result.at = "line 280" => result.j + 1 < EndOfFunction(result.scanned)
        /\ After(result.scanned, EndOfFunction(result.scanned))
              = After(_replace_leave(old_lines), EndOfFunction(_replace_leave(old_lines)))

\* the lines from the start of a scan for ret on, as they are to be after
\* the scans: the scan ends at once if it starts on the sentinel, else it
\* looks for the next ret and the nearest popq before it (behind the
\* start), puts the shrink instruction before that popq and goes on after
\* the ret
RECURSIVE Patched(_, _)
Patched(lines, amount) ==
    LET rets == {k \in 1..Len(lines) : IsReturn(lines[k])}
        pops == {k \in 2..(Min(rets) - 1) : IsPop(lines[k])}
    IN  IF Len(lines) = 0 \/ IsSentinel(lines[1]) \/ rets = {} \/ pops = {} THEN lines
        ELSE SubSeq(lines, 1, Max(pops) - 1)
                \o <<Line(shrink_statement(amount), 0)>>
                \o SubSeq(lines, Max(pops), Min(rets))
                \o Patched(After(lines, Min(rets)), amount)

\* the lines with the grow instruction after the prologue push and the
\* shrink instructions before the returns
Padded(lines, amount) ==
    SubSeq(lines, 1, ProloguePush(lines))
        \o <<Line(grow_statement(amount), 0)>>
        \o Patched(After(lines, ProloguePush(lines)), amount)

\* C20: when pad_stack(amount) does not abort, the lines are those after
\* the leave replacement with one grow instruction right after the first
\* push of the frame pointer that follows the function label and, for
\* every ret the scan finds, one shrink instruction of the same amount
\* right before the nearest popq before that ret, the scan going on at the
\* line after the ret; nothing else is inserted, removed or moved.
C20_GrowShrinkPlacement ==
    (method = "pad_stack" /\ ~Aborted) =>
        Contents(section.lines) = Contents(Padded(_replace_leave(old_lines), param.amount))

\* pad_stack returned True on a function with a leave behind the push: the
\* lines have the grow and one shrink instruction
C20_Witness ==
    /\ method = "pad_stack"
    /\ result.value = "True"
    /\ \E k \in 1..Len(old_lines) : is_leave_instruction(old_lines[k])
    /\ \E k \in 1..Len(section.lines) :
          section.lines[k].content = shrink_statement(param.amount)

(***************************************************************************)
(* Properties of process with heap padding (specification DriverSpec).     *)
(***************************************************************************)
\* the lines of a text as Line objects
LinesOf(text) == new_lines(TextLines(text), 0)

\* the positions of the calls of allocation functions in the lines
AllocationCalls(lines) == {k \in 1..Len(lines) : IsAllocationCall(lines[k])}

\* process has just rewritten the file, with heap padding switched on
Processed == pc = "exec" /\ processor.heap > 0

\* C21: after process with heap padding, whatever file_structure and
\* small_changes are, every call of an allocation function in the file has
\* exactly one inserted padding instruction before it, and the file has
\* every call of the original file once: no section is padded or written
\* twice.
C21_SingleHeapPadding ==
    Processed =>
        LET out == LinesOf(file)
            padding == padding_range(processor.heap)
        IN  /\ \A k \in AllocationCalls(out) :
                  /\ k > 1 /\ IsHeapPadding(out[k - 1], padding)
                  /\ ~(k > 2 /\ IsHeapPadding(out[k - 2], padding))
            /\ Cardinality(AllocationCalls(out))
                  = Cardinality(AllocationCalls(LinesOf(original)))

(***************************************************************************)
(* The loops of the Section methods, one iteration a step (specification   *)
(* ScanSpec).  locals.pc names the loop the call is at.                     *)
(***************************************************************************)
\* a method is called on a freshly built object: its arguments are bound,
\* its first loop is next
called(sec, name, args, first_pc) ==
    /\ section = sec
    /\ old_lines = sec.lines
    /\ method = name
    /\ param = args
    /\ result = no_result
    /\ locals = [no_locals EXCEPT !.pc = first_pc]

\* Section.from_lines(lines).randomize_malloc_calls(padding)
CallRandomizeMallocCalls ==
    \E n \in 1..MaxScanLines : \E strs \in [1..n -> SectionTexts] : \E padding \in Paddings :
        called(from_lines(new_lines(strs, 0)), "randomize_malloc_calls",
               [no_param EXCEPT !.padding = padding], "malloc_loop")

\* lines for randomize_segment: a label, a segment statement, a line that
\* starts the data segment without being a segment statement, a statement
SegmentTexts == {"x:", "\t.data", "\t.section data", "\t.long 1"}

\* Section.from_lines(lines).randomize_segment(segment_name)
CallRandomizeSegment ==
    \E n \in 1..MaxScanLines : \E strs \in [1..n -> SegmentTexts] :
        \E segment_name \in ShuffledSegments :
            called(from_lines(new_lines(strs, 0)), "randomize_segment",
                   [no_param EXCEPT !.segment_name = segment_name], "segment_outer")

\* FunctionSection(lines)._replace_leave()
CallReplaceLeave ==
    \E n \in 1..MaxScanLines : \E strs \in [1..n -> FunctionTexts] :
        called(FunctionSection(new_lines(strs, 0)), "_replace_leave", no_param, "leave_outer")

\* FunctionSection(lines).pad_stack(amount): old_lines is copied and
\* self._replace_leave() is called
CallPadStack ==
    \E n \in 1..MaxScanLines : \E strs \in [1..n -> FunctionTexts] : \E amount \in StackAmounts :
        called(FunctionSection(new_lines(strs, 0)), "pad_stack",
               [no_param EXCEPT !.amount = amount], "leave_outer")

ScanInit ==
    /\ \/ CallRandomizeMallocCalls
       \/ CallRandomizeSegment
       \/ CallReplaceLeave
       \/ CallPadStack
    /\ FileIdle
    /\ DriverIdle

\* a method returns: the value, and the return statement taken
returned(lines, value, at) ==
    /\ section' = [section EXCEPT !.lines = lines]
    /\ result' = returns(lines, value, at, locals.i, locals.j, section.lines)
    /\ locals' = [locals EXCEPT !.pc = "returned"]
    /\ UNCHANGED <<old_lines, method, param, fileVars, driverVars>>

\* a step inside a method: self.lines and the locals after it
step(lines, next_locals) ==
    /\ section' = [section EXCEPT !.lines = lines]
    /\ locals' = next_locals
    /\ UNCHANGED <<old_lines, method, param, result, fileVars, driverVars>>

\* ---- Section.randomize_malloc_calls
\* the index after a line that was left alone
malloc_next_line(idx) == idx + 1

\* the index after a call that got its padding instruction: "i += 1" twice
malloc_next_call(idx) == idx + 2

is_malloc_call(line) ==
    /\ is_statement(line)
    /\ statement(line) = "call"
    /\ SplitWSFirst(Strip(rest(line))) \in randomized_method_names

\* an iteration of "while i < len(self.lines)" on a line that is no call
\* of an allocation function
MallocSkip ==
    /\ locals.pc = "malloc_loop"
    /\ locals.i < Len(section.lines)
    /\ ~is_malloc_call(section.lines[locals.i + 1])
    /\ step(section.lines, [locals EXCEPT !.i = malloc_next_line(locals.i)])

\* an iteration on a call: the padding instruction is inserted before it
MallocInsert ==
    /\ locals.pc = "malloc_loop"
    /\ locals.i < Len(section.lines)
    /\ is_malloc_call(section.lines[locals.i + 1])
    /\ \E a \in param.padding :
          step(insert(section.lines, locals.i, Line(subq_statement_format(a), locals.i)),
               [locals EXCEPT !.i = malloc_next_call(locals.i), !.mark = locals.i])

MallocReturn ==
    /\ locals.pc = "malloc_loop"
    /\ ~(locals.i < Len(section.lines))
    /\ returned(section.lines, "None", "line 198")

\* ---- FunctionSection._replace_leave, called directly or by pad_stack
\* "while i < len(self.lines): j = i"
LeaveEnter ==
    /\ locals.pc = "leave_outer"
    /\ locals.i < Len(section.lines)
    /\ step(section.lines, [locals EXCEPT !.pc = "leave_inner", !.j = locals.i])

\* one iteration of "while j < len(self.lines) and not (... == "leave")"
LeaveScan ==
    /\ locals.pc = "leave_inner"
    /\ locals.j < Len(section.lines)
    /\ ~is_leave_instruction(section.lines[locals.j + 1])
    /\ step(section.lines, [locals EXCEPT !.j = locals.j + 1])

\* lines 295-298: the leave at j is replaced, "j += 2; i = j"
LeaveReplace ==
    /\ locals.pc = "leave_inner"
    /\ locals.j < Len(section.lines)
    /\ is_leave_instruction(section.lines[locals.j + 1])
    /\ step(insert([section.lines EXCEPT ![locals.j + 1] = Line("mov %rbp, %rsp", locals.j)],
                   locals.j + 1, Line("popq %rbp", locals.j)),
            [locals EXCEPT !.pc = "leave_outer", !.i = locals.j + 2, !.j = locals.j + 2,
                           !.mark = locals.j + 1])

\* _replace_leave is over: "if j == len(self.lines): return" or the end of
\* the outer loop
leave_over ==
    \/ locals.pc = "leave_outer" /\ ~(locals.i < Len(section.lines))
    \/ locals.pc = "leave_inner" /\ locals.j = Len(section.lines)

LeaveReturn ==
    /\ method = "_replace_leave"
    /\ leave_over
    /\ returned(section.lines, "None", "line 294")

\* pad_stack goes on after self._replace_leave(): "i = 0" and the search
\* for the function label
PadAfterLeave ==
    /\ method = "pad_stack"
    /\ leave_over
    /\ step(section.lines, [no_locals EXCEPT !.pc = "label"])

\* ---- Section.randomize_segment
starts_segment(line, segment_name) ==
    \/ startswith(line, "." \o segment_name)
    \/ startswith(line, ".section " \o segment_name)

\* "while i < len(self.lines):" with the loop that searches for the start
\* next
SegmentEnter ==
    /\ locals.pc = "segment_outer"
    /\ locals.i < Len(section.lines)
    /\ step(section.lines, [locals EXCEPT !.pc = "segment_start"])

\* one iteration of the search for a line that starts the segment
SegmentStartScan ==
    /\ locals.pc = "segment_start"
    /\ locals.i < Len(section.lines)
    /\ ~starts_segment(section.lines[locals.i + 1], param.segment_name)
    /\ step(section.lines, [locals EXCEPT !.i = locals.i + 1])

\* the start is found: "j = i + 1"
SegmentFound ==
    /\ locals.pc = "segment_start"
    /\ locals.i < Len(section.lines)
    /\ starts_segment(section.lines[locals.i + 1], param.segment_name)
    /\ step(section.lines, [locals EXCEPT !.pc = "segment_end", !.j = locals.i + 1])

\* one iteration of "while j < len(self.lines) and not
\* self.lines[i].split_section_before()"
SegmentEndScan ==
    /\ locals.pc = "segment_end"
    /\ locals.j < Len(section.lines)
    /\ ~split_section_before(section.lines[locals.i + 1])
    /\ step(section.lines, [locals EXCEPT !.j = locals.j + 1])

\* lines 164-174: the slice is shuffled and written back, "i = j"
SegmentShuffle ==
    /\ locals.pc = "segment_end"
    /\ locals.j < Len(section.lines)
    /\ split_section_before(section.lines[locals.i + 1])
    /\ \E shuffled \in shuffle(subsections(SubSeq(section.lines, locals.i + 2, locals.j),
                                           <<<<>>>>)) :
          step(SubSeq(section.lines, 1, locals.i + 1) \o concat(shuffled)
                   \o SubSeq(section.lines, locals.j + 1, Len(section.lines)),
               [locals EXCEPT !.pc = "segment_outer", !.i = locals.j,
                              !.mark = IF locals.j > locals.i + 1 THEN locals.j - 1
                                       ELSE locals.mark])

\* the two "return" statements and the end of the outer loop
segment_over ==
    \/ locals.pc = "segment_outer" /\ ~(locals.i < Len(section.lines))
    \/ locals.pc = "segment_start" /\ locals.i = Len(section.lines)
    \/ locals.pc = "segment_end" /\ locals.j = Len(section.lines)

SegmentReturn ==
    /\ segment_over
    /\ returned(section.lines, "None", "line 162")

\* ---- FunctionSection.pad_stack after self._replace_leave()
\* one iteration of the search for the function label
PadLabelScan ==
    /\ locals.pc = "label"
    /\ locals.i < Len(section.lines)
    /\ ~is_function_label(section.lines[locals.i + 1])
    /\ ~is_bad(section.lines, locals.i)
    /\ step(section.lines, [locals EXCEPT !.i = locals.i + 1])

\* the label is found: the search for the push starts at it
PadLabelFound ==
    /\ locals.pc = "label"
    /\ locals.i < Len(section.lines)
    /\ is_function_label(section.lines[locals.i + 1])
    /\ step(section.lines, [locals EXCEPT !.pc = "push"])

\* one iteration of the search for the first "pushq %rbp"
PadPushScan ==
    /\ locals.pc = "push"
    /\ locals.i < Len(section.lines)
    /\ ~is_push_instr(section.lines[locals.i + 1])
    /\ ~is_bad(section.lines, locals.i)
    /\ step(section.lines, [locals EXCEPT !.i = locals.i + 1])

\* lines 251-252: the grow instruction is inserted, "i += 2"
PadGrow ==
    /\ locals.pc = "push"
    /\ locals.i < Len(section.lines)
    /\ is_push_instr(section.lines[locals.i + 1])
    /\ step(insert(section.lines, locals.i + 1, Line(grow_statement(param.amount), locals.i)),
            [locals EXCEPT !.pc = "ret_outer", !.i = locals.i + 2, !.mark = locals.i + 1])

\* "while i < len(self.lines): j = i"
PadRetEnter ==
    /\ locals.pc = "ret_outer"
    /\ locals.i < Len(section.lines)
    /\ step(section.lines, [locals EXCEPT !.pc = "ret_scan", !.j = locals.i])

\* one iteration of the search for a ret instruction
PadRetScan ==
    /\ locals.pc = "ret_scan"
    /\ locals.j < Len(section.lines)
    /\ ~is_ret_instruction(section.lines[locals.j + 1])
    /\ ~is_bad(section.lines, locals.i)
    /\ step(section.lines, [locals EXCEPT !.j = locals.j + 1])

\* the ret is found: "k = j"
PadRetFound ==
    /\ locals.pc = "ret_scan"
    /\ locals.j < Len(section.lines)
    /\ is_ret_instruction(section.lines[locals.j + 1])
    /\ ~is_bad(section.lines, locals.i)
    /\ step(section.lines, [locals EXCEPT !.pc = "pop", !.k = locals.j])

\* one iteration of "while k > i and not is_real_instruction(self.lines[k])"
PadPopScan ==
    /\ locals.pc = "pop"
    /\ locals.k > locals.i
    /\ ~is_real_instruction(section.lines[locals.k + 1])
    /\ step(section.lines, [locals EXCEPT !.k = locals.k - 1])

\* the index the ret loop goes on at, with j the index the ret was found at
after_ret_again(j) == j + 1

after_ret(j) == j + 2

\* lines 281-282: the shrink instruction is inserted, "i = j + 2"
PadShrink ==
    /\ locals.pc = "pop"
    /\ locals.k > locals.i
    /\ is_real_instruction(section.lines[locals.k + 1])
    /\ step(insert(section.lines, locals.k, Line(shrink_statement(param.amount), locals.k)),
            [locals EXCEPT !.pc = "ret_outer", !.i = after_ret(locals.j), !.mark = locals.k])

\* the return statement pad_stack takes in this state: its value and its
\* place, or "" for none
pad_exit ==
    LET lines == section.lines
        len == Len(section.lines)
    IN  IF locals.pc = "label"
        THEN IF locals.i = len THEN <<"False", "line 231">>
             ELSE IF ~is_function_label(lines[locals.i + 1]) /\ is_bad(lines, locals.i)
             THEN <<"None", "line 227">>
             ELSE <<"", "">>
        ELSE IF locals.pc = "push"
        THEN IF locals.i = len THEN <<"False", "line 249">>
             ELSE IF ~is_push_instr(lines[locals.i + 1]) /\ is_bad(lines, locals.i)
             THEN <<"None", "line 245">>
             ELSE <<"", "">>
        ELSE IF locals.pc = "ret_outer"
        THEN IF locals.i < len THEN <<"", "">> ELSE <<"True", "line 284">>
        ELSE IF locals.pc = "ret_scan"
        THEN IF locals.j < len /\ ~is_ret_instruction(lines[locals.j + 1])
             THEN IF is_bad(lines, locals.i) THEN <<"None", "line 268">> ELSE <<"", "">>
             ELSE IF is_bad(lines, locals.i) THEN <<"None", "line 271">>
             ELSE IF locals.j = len THEN <<"None", "line 273">>
             ELSE <<"", "">>
        ELSE IF locals.pc = "pop" /\ ~(locals.k > locals.i) THEN <<"False", "line 280">>
        ELSE <<"", "">>

\* a return of pad_stack; log_failure() has put old_lines back where False
\* is returned
PadReturn ==
    /\ method = "pad_stack"
    /\ pad_exit[2] # ""
    /\ returned(IF pad_exit[1] = "False" THEN old_lines ELSE section.lines,
                pad_exit[1], pad_exit[2])

ScanNext ==
    \/ MallocSkip \/ MallocInsert \/ MallocReturn
    \/ LeaveEnter \/ LeaveScan \/ LeaveReplace \/ LeaveReturn
    \/ SegmentEnter \/ SegmentStartScan \/ SegmentFound \/ SegmentEndScan
    \/ SegmentShuffle \/ SegmentReturn
    \/ PadAfterLeave \/ PadLabelScan \/ PadLabelFound \/ PadPushScan \/ PadGrow
    \/ PadRetEnter \/ PadRetScan \/ PadRetFound \/ PadPopScan \/ PadShrink
    \/ PadReturn

ScanSpec == ScanInit /\ [][ScanNext]_vars

(***************************************************************************)
(* Termination of the scans (specification ScanSpec).                      *)
(***************************************************************************)
\* the index of the line the loop at locals.pc looks at next: k in the
\* backward search for the pop, i elsewhere (the forward searches with j
\* start at i)
Examined == IF locals.pc = "pop" THEN locals.k ELSE locals.i

\* what is left to do: the part of the method the call is in, then the
\* lines left after the index of the loop, then the place in the iteration,
\* then what the backward search has left
Rank ==
    LET left_i == Len(section.lines) - locals.i
        left_j == Len(section.lines) - locals.j
    IN  CASE locals.pc = "returned"      -> <<0, 0, 0, 0>>
          [] locals.pc = "malloc_loop"   -> <<1, left_i, 0, 0>>
          [] locals.pc = "segment_outer" -> <<1, left_i, 2, 0>>
          [] locals.pc = "segment_start" -> <<1, left_i, 1, 0>>
          [] locals.pc = "segment_end"   -> <<1, left_j, 3, 0>>
          [] locals.pc = "ret_outer"     -> <<1, left_i, 2, 0>>
          [] locals.pc = "ret_scan"      -> <<1, left_j, 1, 0>>
          [] locals.pc = "pop"           -> <<1, left_j, 0, locals.k>>
          [] locals.pc = "push"          -> <<2, left_i, 0, 0>>
          [] locals.pc = "label"         -> <<3, left_i, 0, 0>>
          [] locals.pc = "leave_outer"   -> <<4, left_i, 1, 0>>
          [] locals.pc = "leave_inner"   -> <<4, left_j, 0, 0>>

\* the lexicographic order of the ranks
Less(r, s) ==
    \E n \in 1..4 :
        /\ r[n] < s[n]
        /\ \A m \in 1..(n - 1) : r[m] = s[m]

\* C22: each of randomize_malloc_calls, randomize_segment, _replace_leave
\* and pad_stack terminates on every section: every step of a loop lowers
\* a rank of natural numbers in a well-founded order, and the index a loop
\* looks at is always past the last line the loop inserted or rewrote
\* (pad_stack's searches start anew after its call of _replace_leave has
\* returned).
C22_ScanTermination ==
    /\ [](/\ \A n \in 1..4 : Rank[n] \in Nat
          /\ Examined > locals.mark)
    /\ [][Less(Rank', Rank)]_vars

\* pad_stack has returned True on a function with a leave: lines were
\* rewritten and inserted by _replace_leave, and the grow and a shrink
\* instruction were inserted by pad_stack's own loops
C22_Witness ==
    /\ locals.pc = "returned"
    /\ method = "pad_stack"
    /\ result.value = "True"
    /\ locals.mark >= 0
    /\ \E n \in 1..Len(old_lines) : is_leave_instruction(old_lines[n])
    /\ Len(section.lines) = Len(old_lines) + 3

====
